---- MODULE Spec2Model ----
(***************************************************************************)
(* Order lifecycle and inventory reservation of herabuna_b2b               *)
(* (b2b/views.py, b2b/models.py), as a state machine over the database     *)
(* tables Product / ProductVariant (stock_qty, wholesale_price,            *)
(* is_active), Order and OrderItem.                                        *)
(*                                                                         *)
(* Every view is a pure operator from a database value to a result         *)
(* [db, resp]: the database the view commits and the response it returns.  *)
(* A view that raises inside @transaction.atomic commits nothing.          *)
(***************************************************************************)
EXTENDS Integers, Sequences, FiniteSets, TLC

\* ------------------------------------------------------------------ bounds
MaxOrders == 2
MaxStock == 2
MaxQty == 2
MaxRepeat == 2
MaxPrice == 3
MaxWeight == 130

\* ------------------------------------------------------------ the catalog
Dealers == {"d1", "d2", "d3"}
Staff == {"staff"}
Users == Dealers \cup Staff
Products == {"P1", "P2"}
Variants == {"V1"}
\* A row that carries a stock_qty: a Product or a ProductVariant.
Rows == Products \cup Variants
\* ProductVariant.product
product_of(r) == IF r = "V1" THEN "P2" ELSE r
\* Product.variants.exists()
has_variants(p) == \E v \in Variants : product_of(v) = p
\* Product.woo_id (set for every mirrored product)
woo_id(p) == p

OrderIds == 1..(MaxOrders + 1)
STATUS_CHOICES == {"draft", "submitted", "pending_payment", "shipped", "cancelled"}

Max(a, b) == IF a >= b THEN a ELSE b
Min(a, b) == IF a <= b THEN a ELSE b

\* ------------------------------------------------------------------ state
VARIABLES
    stock_qty,        \* Product.stock_qty / ProductVariant.stock_qty, per row
    wholesale_price,  \* Product.wholesale_price / ProductVariant.wholesale_price
    is_active,        \* Product.is_active / ProductVariant.is_active
    weight_g,         \* Product.weight_g / ProductVariant.weight_g, in grams
    orders,           \* Order rows by id; status "none": no such row
    items,            \* OrderItem rows of each order, in id order
    next_order_id,    \* the Order table's autoincrement
    woo_stock,        \* the external catalog: stock_quantity of each unit there
    mail,             \* what the mail and Telegram servers did to the last request
    np_document,      \* the last InternetDocument saved at Nova Poshta
    response,         \* what the last request returned to its actor
    ledger,           \* history: how often each order's lines were reserved / released
    opening,          \* history: the on-hand quantities the run started with
    tx                \* the open transactions of the concurrent requests

vars == <<stock_qty, wholesale_price, is_active, weight_g, orders, items,
          next_order_id, woo_stock, mail, np_document, response, ledger, opening, tx>>

\* The database as one value: what a transaction reads and what it commits.
DB == [stock_qty |-> stock_qty, wholesale_price |-> wholesale_price,
       is_active |-> is_active, orders |-> orders, items |-> items,
       next_order_id |-> next_order_id]

\* An absent Order row.
NoOrder == [dealer |-> "", status |-> "none", subtotal |-> 0, total |-> 0,
            shipping_ttn |-> "", shipping_np_ref |-> "", shipped_at |-> FALSE,
            shipping_address |-> ""]

\* Order(): the defaults of a new row.
NewOrder(user) == [NoOrder EXCEPT !.dealer = user, !.status = "draft"]

\* ------------------------------------------------------------- responses
Resp(code) == [code |-> code, row |-> "", available |-> 0]
\* messages.error(request, "Недостатньо на складі для {sku}. Доступно: {available}")
Insufficient(row, available) == [code |-> "insufficient", row |-> row, available |-> available]
\* messages.warning(request, "Максимально доступно ...: {available}.")
MaxAvailable(row, available) == [code |-> "max_available", row |-> row, available |-> available]
Result(d, r) == [db |-> d, resp |-> r]

\* ------------------------------------------------------------ Order.recalc
RECURSIVE SumLines(_)
SumLines(s) == IF s = <<>> THEN 0
               ELSE Head(s).qty * Head(s).price + SumLines(Tail(s))

\* (variant: a recalc that leaves the stored totals alone)
recalc_skipped(d, o) == d

recalc(d, o) ==
    LET subtotal == SumLines(d.items[o])
    IN [d EXCEPT !.orders[o].subtotal = subtotal, !.orders[o].total = subtotal]

\* ------------------------------------------------------- queryset helpers
\* Order.objects.filter(dealer=user, status="draft")
Drafts(d, user) == {o \in OrderIds : d.orders[o].status = "draft" /\ d.orders[o].dealer = user}
SetMin(S) == CHOOSE x \in S : \A y \in S : x <= y
\* sum of q[x] over the rows x of S
RECURSIVE SumOver(_, _)
SumOver(q, S) ==
    IF S = {} THEN 0
    ELSE LET v == CHOOSE x \in S : TRUE IN q[v] + SumOver(q, S \ {v})
\* .first(): the lowest id, 0 for None
first_draft(d, user) == IF Drafts(d, user) = {} THEN 0 ELSE SetMin(Drafts(d, user))

\* OrderItem.objects.filter(order=o, product=.., variant=..): positions in items[o]
ItemsOf(d, o, row) == {i \in 1..Len(d.items[o]) : d.items[o][i].row = row}

RemoveAt(s, i) == [j \in 1..(Len(s) - 1) |-> IF j < i THEN s[j] ELSE s[j + 1]]

\* The stock each item sees: select_related("product", "variant") loads the
\* row with the item, so every item carries the stock read by the query.
available_for(d, it) == Max(0, d.stock_qty[it.row])

\* Order.objects.get_or_create(dealer=user, status="draft")
\* [ok, db, id]; not ok: MultipleObjectsReturned
get_or_create_draft(d, user) ==
    IF Cardinality(Drafts(d, user)) > 1 THEN [ok |-> FALSE, db |-> d, id |-> 0]
    ELSE IF Drafts(d, user) # {} THEN [ok |-> TRUE, db |-> d, id |-> first_draft(d, user)]
    ELSE [ok |-> TRUE,
          db |-> [d EXCEPT !.orders[d.next_order_id] = NewOrder(user),
                           !.items[d.next_order_id] = <<>>,
                           !.next_order_id = d.next_order_id + 1],
          id |-> d.next_order_id]

\* OrderItem.objects.get_or_create(order, product, variant, defaults={qty: 0, price})
\* [ok, db, idx]; not ok: MultipleObjectsReturned
get_or_create_item(d, o, row, price) ==
    IF Cardinality(ItemsOf(d, o, row)) > 1 THEN [ok |-> FALSE, db |-> d, idx |-> 0]
    ELSE IF ItemsOf(d, o, row) # {}
         THEN [ok |-> TRUE, db |-> d, idx |-> CHOOSE i \in ItemsOf(d, o, row) : TRUE]
    ELSE [ok |-> TRUE,
          db |-> [d EXCEPT !.items[o] = Append(@, [row |-> row, qty |-> 0, price |-> price])],
          idx |-> Len(d.items[o]) + 1]

\* (variant: a line that takes the unit's price at every addition)
line_price_latest(item, price, reprice) == price

\* The price the line is saved with. reprice: add_to_cart_with_attrs, which
\* resets the price of a line whose qty is 0; add_to_cart never writes it.
line_price(item, price, reprice) ==
    IF reprice /\ item.price # price /\ item.qty = 0 THEN price ELSE item.price

\* The tail shared by add_to_cart and add_to_cart_with_attrs once the row
\* and its availability are known: get_or_create the line, cap, save, recalc.
add_line(d0, d, o, row, price, available, qty_req, reprice) ==
    LET ic == get_or_create_item(d, o, row, price) IN
    IF ~ic.ok THEN Result(d0, Resp("500"))
    ELSE LET item == ic.db.items[o][ic.idx]
             current == item.qty
             to_add == Min(qty_req, available - current)
             item_price == line_price(item, price, reprice)
         IN IF to_add <= 0 THEN Result(ic.db, MaxAvailable(row, available))
            ELSE Result(recalc([ic.db EXCEPT !.items[o][ic.idx].qty = current + to_add,
                                             !.items[o][ic.idx].price = item_price], o),
                        Resp("added"))

\* ------------------------------------------------------------ add_to_cart
add_to_cart(d, user, product_id, qty_raw) ==
    IF ~d.is_active[product_id] THEN Result(d, Resp("404"))
    ELSE LET available == Max(0, d.stock_qty[product_id]) IN
         IF available <= 0 THEN Result(d, Resp("out_of_stock"))
         ELSE LET qty_req == Max(1, qty_raw)
                  oc == get_or_create_draft(d, user)
              IN IF ~oc.ok THEN Result(d, Resp("500"))
                 ELSE add_line(d, oc.db, oc.id, product_id,
                               d.wholesale_price[product_id], available, qty_req, FALSE)

\* ------------------------------------------------- add_to_cart_with_attrs
\* selected: the variant whose attributes equal the posted attrs[...], or
\* "nomatch" when no variant of the catalog has exactly these attributes.
matching_variant(d, product_id, selected) ==
    {v \in Variants : product_of(v) = product_id /\ d.is_active[v] /\ v = selected}

add_to_cart_with_attrs(d, user, product_id, qty_raw, selected) ==
    IF ~d.is_active[product_id] THEN Result(d, Resp("404"))
    ELSE LET oc == get_or_create_draft(d, user) IN
         IF ~oc.ok THEN Result(d, Resp("500"))
         ELSE LET qty_req == Max(1, qty_raw) IN
              IF has_variants(product_id)
              THEN IF matching_variant(d, product_id, selected) = {}
                   THEN Result(oc.db, Resp("no_combination"))
                   ELSE LET variant == CHOOSE v \in matching_variant(d, product_id, selected) : TRUE
                            available == Max(0, d.stock_qty[variant])
                        IN IF available <= 0 THEN Result(oc.db, Resp("out_of_stock"))
                           ELSE add_line(d, oc.db, oc.id, variant,
                                         d.wholesale_price[variant], available, qty_req, TRUE)
              ELSE LET available == Max(0, d.stock_qty[product_id]) IN
                   IF available <= 0 THEN Result(oc.db, Resp("out_of_stock"))
                   ELSE add_line(d, oc.db, oc.id, product_id,
                                 d.wholesale_price[product_id], available, qty_req, TRUE)

\* ------------------------------------------------------- cart_update_item
\* The posted qty: an integer, absent, or text int() rejects.
PostInt(n) == [kind |-> "int", val |-> n]
PostAbsent == [kind |-> "absent", val |-> 0]
PostJunk == [kind |-> "junk", val |-> 0]

item_exists(d, o, idx) == d.orders[o].status # "none" /\ idx \in 1..Len(d.items[o])

\* (variant: a line emptied in place of deleted)
item_zeroed(d, o, idx) == [d EXCEPT !.items[o][idx].qty = 0]

delete_item(d, o, idx) == [d EXCEPT !.items[o] = RemoveAt(@, idx)]

cart_update_item(d, user, o, idx, op, post_qty) ==
    IF ~item_exists(d, o, idx) THEN Result(d, Resp("404"))
    ELSE IF d.orders[o].dealer # user \/ d.orders[o].status # "draft"
    THEN Result(d, Resp("403"))
    ELSE LET item == d.items[o][idx]
             available == available_for(d, item)
         IN IF op = "inc"
            THEN IF item.qty >= available
                 THEN Result(recalc(d, o), MaxAvailable(item.row, available))
                 ELSE Result(recalc([d EXCEPT !.items[o][idx].qty = item.qty + 1], o),
                             Resp("ok"))
            ELSE IF op = "dec"
            THEN IF item.qty - 1 <= 0
                 THEN Result(recalc(delete_item(d, o, idx), o), Resp("ok"))
                 ELSE Result(recalc([d EXCEPT !.items[o][idx].qty = item.qty - 1], o),
                             Resp("ok"))
            ELSE IF post_qty.kind = "junk"
            \* line 348 converts the posted text again, outside any try
            THEN Result(d, Resp("500"))
            ELSE LET posted == IF post_qty.kind = "int" THEN post_qty.val ELSE item.qty
                     q == Max(0, Min(posted, available))
                     saved == IF q <= 0 THEN delete_item(d, o, idx)
                              ELSE [d EXCEPT !.items[o][idx].qty = q]
                     asked == IF post_qty.kind = "int" THEN post_qty.val ELSE q
                 IN Result(recalc(saved, o),
                           IF q < asked THEN MaxAvailable(item.row, available)
                           ELSE Resp("ok"))

\* ------------------------------------------------------- cart_remove_item
\* (variant: a remove that does not ask for the order's status)
cart_remove_item_in_any_status(d, user, o, idx) ==
    IF ~item_exists(d, o, idx) THEN Result(d, Resp("404"))
    ELSE IF d.orders[o].dealer # user THEN Result(d, Resp("403"))
    ELSE Result(recalc(delete_item(d, o, idx), o), Resp("ok"))

cart_remove_item(d, user, o, idx) ==
    IF ~item_exists(d, o, idx) THEN Result(d, Resp("404"))
    ELSE IF d.orders[o].dealer # user \/ d.orders[o].status # "draft"
    THEN Result(d, Resp("403"))
    ELSE Result(recalc(delete_item(d, o, idx), o), Resp("ok"))

\* Order.delete(): the row and, by CASCADE, its items
delete_order(d, o) == [d EXCEPT !.orders[o] = NoOrder, !.items[o] = <<>>]

\* ------------------------------------------------------------- cart_clear
cart_clear(d, user) ==
    IF first_draft(d, user) = 0 THEN Result(d, Resp("ok"))
    ELSE Result(delete_order(d, first_draft(d, user)), Resp("cleared"))

\* (variant: an availability loop that looks at the first line only)
first_line_short(d, o) ==
    IF Len(d.items[o]) > 0 /\ available_for(d, d.items[o][1]) < d.items[o][1].qty
    THEN 1 ELSE 0

\* ------------------------------------------------------------ submit_order
\* The availability loop: the first item, in id order, whose row has less
\* on hand than the item asks; 0 when every item passes.
first_short(d, o) ==
    LET short == {i \in 1..Len(d.items[o]) :
                    available_for(d, d.items[o][i]) < d.items[o][i].qty}
    IN IF short = {} THEN 0 ELSE SetMin(short)

\* The last item of the order on a row, 0 when none: each item saves the
\* stock it loaded changed by its own qty, so the last save is what stays.
last_item_on(d, o, row) ==
    IF ItemsOf(d, o, row) = {} THEN 0
    ELSE CHOOSE i \in ItemsOf(d, o, row) : \A j \in ItemsOf(d, o, row) : j <= i

\* (variant: a submit that reserves nothing)
reserve_nothing(d, o) == d

\* "Reserve locally": stock_qty -= it.qty; save(update_fields=["stock_qty"])
reserve(d, o) ==
    [d EXCEPT !.stock_qty = [r \in Rows |->
        IF last_item_on(d, o, r) = 0 THEN d.stock_qty[r]
        ELSE d.stock_qty[r] - d.items[o][last_item_on(d, o, r)].qty]]

\* (variant: a restock that forgets the variants)
restock_products(d, o) ==
    [d EXCEPT !.stock_qty = [r \in Rows |->
        IF last_item_on(d, o, r) = 0 \/ r \in Variants THEN d.stock_qty[r]
        ELSE d.stock_qty[r] + d.items[o][last_item_on(d, o, r)].qty]]

\* "Restock items": stock_qty += it.qty; save(update_fields=["stock_qty"])
restock(d, o) ==
    [d EXCEPT !.stock_qty = [r \in Rows |->
        IF last_item_on(d, o, r) = 0 THEN d.stock_qty[r]
        ELSE d.stock_qty[r] + d.items[o][last_item_on(d, o, r)].qty]]

\* ---------------------------------------------------------------- WooClient
\* net: what the network does to one PUT:
\*   "ok"      the shop applies it and answers
\*   "down"    the request never reaches the shop: requests raises
\*   "timeout" the shop applies it, the answer is lost: requests raises
NetOutcomes == {"ok", "down", "timeout"}

ProductVariant_woo_variation_id(v) == v

\* (variant: a PUT that adds the quantity to what the shop holds)
put_adds(w, unit, stock_quantity, net) ==
    IF net = "down" THEN w ELSE [w EXCEPT ![unit] = @ + stock_quantity]

\* _put(path, {"stock_quantity": stock_qty, "manage_stock": True}): the shop
\* stores the quantity for the unit at the path.
_put(w, unit, stock_quantity, net) ==
    IF net = "down" THEN w ELSE [w EXCEPT ![unit] = stock_quantity]

update_stock(w, product_woo_id, qty, net) == _put(w, product_woo_id, qty, net)

update_variation_stock(w, product_id, variation_id, qty, net) ==
    _put(w, variation_id, qty, net)

\* The push loop of the views over the items s of an order, on the saved
\* database d: each item pushes the quantity of its variant, else of its
\* product.
push_item(w, d, it, net) ==
    IF it.row \in Variants
    THEN update_variation_stock(w, woo_id(product_of(it.row)),
                                ProductVariant_woo_variation_id(it.row),
                                d.stock_qty[it.row], net)
    ELSE update_stock(w, woo_id(it.row), d.stock_qty[it.row], net)

RECURSIVE push_stock(_, _, _, _)
push_stock(w, d, s, net) ==
    IF s = <<>> THEN w
    ELSE push_stock(push_item(w, d, Head(s), net), d, Tail(s), net)

\* woo: what the external catalog does during this request:
\*   "ok"        every call succeeds
\*   "down"      update_stock / update_variation_stock raise
\*   "no_client" WooClient() itself raises (settings.WOO_BASE_URL is None)
WooOutcomes == {"ok", "down", "no_client"}

submit_order(d, user, woo) ==
    LET o == first_draft(d, user) IN
    IF o = 0 \/ Len(d.items[o]) = 0 THEN Result(d, Resp("empty"))
    ELSE IF first_short(d, o) # 0
    THEN LET it == d.items[o][first_short(d, o)]
         IN Result(d, Insufficient(it.row, available_for(d, it)))
    ELSE LET reserved == reserve(d, o)
             saved == recalc([reserved EXCEPT !.orders[o].status = "submitted"], o)
         IN \* client = woo_sync.WooClient() stands outside the try: when it
            \* raises, the exception leaves the atomic block and rolls back
            IF woo = "no_client" THEN Result(d, Resp("500"))
            ELSE Result(saved, Resp("submitted"))

\* ------------------------------------------------- order_checkout_confirm
Addresses == {"a1", "a2", "a3"}
\* Address.dealer
address_dealer(a) == IF a = "a1" THEN "d1" ELSE IF a = "a2" THEN "d2" ELSE "d3"
\* the address a dealer picks at checkout: one of their own
address_of(user) == CHOOSE a \in Addresses : address_dealer(a) = user

\* (variant: a checkout that does not look at the stock)
order_checkout_confirm_in_any_stock(d, user, address_id, woo) ==
    LET o == first_draft(d, user) IN
    IF o = 0 \/ Len(d.items[o]) = 0 THEN Result(d, Resp("empty"))
    ELSE IF address_id \notin Addresses \/ address_dealer(address_id) # user
    THEN Result(d, Resp("404"))
    ELSE LET reserved == reserve(d, o)
             saved == recalc([reserved EXCEPT !.orders[o].status = "submitted",
                                              !.orders[o].shipping_address = address_id], o)
         IN IF woo = "no_client" THEN Result(d, Resp("500"))
            ELSE Result(saved, Resp("submitted"))

order_checkout_confirm(d, user, address_id, woo) ==
    LET o == first_draft(d, user) IN
    IF o = 0 \/ Len(d.items[o]) = 0 THEN Result(d, Resp("empty"))
    ELSE IF address_id \notin Addresses \/ address_dealer(address_id) # user
    THEN Result(d, Resp("404"))
    ELSE IF first_short(d, o) # 0
    THEN LET it == d.items[o][first_short(d, o)]
         IN Result(d, Insufficient(it.row, available_for(d, it)))
    ELSE LET reserved == reserve(d, o)
             saved == recalc([reserved EXCEPT !.orders[o].status = "submitted",
                                              !.orders[o].shipping_address = address_id], o)
         IN IF woo = "no_client" THEN Result(d, Resp("500"))
            ELSE Result(saved, Resp("submitted"))

\* ----------------------------------------------------- order_admin_action
\* (variant: a staff test every user passes)
everyone_is_staff(u) == TRUE

_is_staff(u) == u \in Staff

\* np: what np_api.create_ttn does: raise, or return (ttn, ref) with the
\* ref possibly empty.
NpOutcomes == {"raise", "ttn_ref", "ttn"}
\* (variant: a ship that ignores the failure of create_ttn)
ttn_assumed(np) == TRUE

\* the try around np_api.create_ttn(order) passed
ttn_created(np) == np # "raise"

\* (variant: a cancel that only refuses drafts)
cancellable_unless_draft(status) == status # "draft"

\* "cancel": order.status in {"submitted", "pending_payment"}
cancellable(status) == status \in {"submitted", "pending_payment"}

order_admin_action(d, user, order_id, action, np) ==
    IF ~_is_staff(user) THEN Result(d, Resp("login"))
    ELSE IF order_id \notin OrderIds \/ d.orders[order_id].status = "none"
    THEN Result(d, Resp("404"))
    ELSE LET order == d.orders[order_id] IN
    IF action = "confirm"
    THEN IF order.status # "submitted" THEN Result(d, Resp("confirm_rejected"))
         ELSE Result([d EXCEPT !.orders[order_id].status = "pending_payment"],
                     Resp("confirmed"))
    ELSE IF action = "cancel"
    THEN IF ~cancellable(order.status)
         THEN Result(d, Resp("cancel_rejected"))
         ELSE Result([restock(d, order_id) EXCEPT !.orders[order_id].status = "cancelled"],
                     Resp("cancelled"))
    ELSE IF action = "ship"
    THEN IF order.status # "pending_payment" THEN Result(d, Resp("ship_rejected"))
         ELSE IF ~ttn_created(np) THEN Result(d, Resp("ttn_error"))
         ELSE Result([d EXCEPT !.orders[order_id].shipping_ttn = "TTN",
                               !.orders[order_id].shipping_np_ref =
                                   IF np = "ttn_ref" THEN "REF" ELSE "",
                               !.orders[order_id].shipped_at = TRUE,
                               !.orders[order_id].status = "shipped"],
                     Resp("shipped"))
    ELSE Result(d, Resp("400"))

\* -------------------------------------------------- product_update_inline
\* The posted wholesale_price and stock_qty: PostInt(n), PostAbsent (the
\* default, the value read) or PostJunk (the conversion raises: kept).
product_update_inline(d, user, product_id, post_price, post_stock, post_active) ==
    IF ~_is_staff(user) THEN Result(d, Resp("login"))
    ELSE IF product_id \notin Products THEN Result(d, Resp("404"))
    ELSE Result([d EXCEPT
            !.wholesale_price[product_id] =
                IF post_price.kind = "int" THEN post_price.val ELSE @,
            !.stock_qty[product_id] =
                IF post_stock.kind = "int" THEN post_stock.val ELSE @,
            !.is_active[product_id] = post_active],
         Resp("saved"))

\* ------------------------------------------------------- order_set_status
order_set_status(d, user, order_id, status) ==
    IF ~_is_staff(user) THEN Result(d, Resp("login"))
    ELSE IF order_id \notin OrderIds \/ d.orders[order_id].status = "none"
    THEN Result(d, Resp("404"))
    ELSE IF status \notin STATUS_CHOICES THEN Result(d, Resp("400"))
    ELSE Result([d EXCEPT !.orders[order_id].status = status], Resp("ok"))

\* ----------------------------------------------------------- order_delete
\* (variant: a delete that does not ask whose order it is)
order_delete_of_anyone(d, user, order_id) ==
    IF order_id \notin OrderIds \/ d.orders[order_id].status = "none"
    THEN Result(d, Resp("404"))
    ELSE IF d.orders[order_id].status \notin {"draft", "cancelled"}
    THEN Result(d, Resp("not_deletable"))
    ELSE Result(delete_order(d, order_id), Resp("deleted"))

order_delete(d, user, order_id) ==
    IF order_id \notin OrderIds \/ d.orders[order_id].status = "none"
       \/ d.orders[order_id].dealer # user
    THEN Result(d, Resp("404"))
    ELSE IF d.orders[order_id].status \notin {"draft", "cancelled"}
    THEN Result(d, Resp("not_deletable"))
    ELSE Result(delete_order(d, order_id), Resp("deleted"))

\* ================================================================ requests
\* The concurrent requests of one run.
Requests == {1, 2}
IdleTx == [pc |-> "idle"]

\* The inputs the requests are drawn from.
QtyInputs == 0..MaxQty
PostQtyInputs == {PostInt(n) : n \in 0..(MaxQty + 1)} \cup {PostJunk}
PostStockInputs == {PostInt(n) : n \in (0 - 1)..MaxStock} \cup {PostAbsent}
\* (op, qty) of a cart_update_item POST
UpdateInputs == {<<"inc", PostAbsent>>, <<"dec", PostAbsent>>}
                    \cup {<<"set", q>> : q \in PostQtyInputs}
\* (action, create_ttn outcome) of an order_admin_action POST
AdminInputs == {<<"confirm", "raise">>, <<"cancel", "raise">>, <<"refund", "raise">>,
                <<"ship", "raise">>, <<"ship", "ttn_ref">>}
ExistingOrders == {o \in OrderIds : orders[o].status # "none"}

\* The model's bounds on what a request may commit: the Order table's
\* autoincrement and the on-hand quantities stay in the modelled range.
Bounded(res) ==
    /\ res.db.next_order_id <= Max(MaxOrders + 1, next_order_id)
    /\ \A r \in Rows : res.db.stock_qty[r] <= Max(MaxStock, opening[r])

\* The commit of a request's result.
Commit(res) ==
    /\ stock_qty' = res.db.stock_qty
    /\ wholesale_price' = res.db.wholesale_price
    /\ is_active' = res.db.is_active
    /\ orders' = res.db.orders
    /\ items' = res.db.items
    /\ next_order_id' = res.db.next_order_id
    /\ response' = res.resp

\* ----------------------------------------------------------------- history
\* ledger[o].reserved / .released count the requests that subtracted / added
\* back the lines of order o; ledger[o].presubmit keeps, for the rows of o's
\* lines, the on-hand quantity just before o was submitted, as long as no
\* other request changed that row since and o is under way or cancelled.
NoRows == [r \in {} |-> 0]
NoLedger == [reserved |-> 0, released |-> 0, presubmit |-> NoRows]
RowsOf(d, o) == {d.items[o][i].row : i \in 1..Len(d.items[o])}
LedgerBounded(l) == \A o \in OrderIds : l[o].reserved <= MaxRepeat /\ l[o].released <= MaxRepeat

\* The ledger after a request committed res; event tells whether the request
\* reserved or released the lines of order o.
Tracked(res, o, event) ==
    [p \in OrderIds |->
        LET kept == {r \in DOMAIN ledger[p].presubmit :
                        /\ res.db.orders[p].status \in {"submitted", "pending_payment", "cancelled"}
                        /\ res.db.stock_qty[r] = stock_qty[r] \/ (p = o /\ event = "released")}
            rest == [ledger[p] EXCEPT !.presubmit = [r \in kept |-> ledger[p].presubmit[r]]]
        IN IF p = o /\ event = "reserved"
           THEN [reserved |-> ledger[p].reserved + 1, released |-> ledger[p].released,
                 presubmit |-> [r \in RowsOf(DB, o) |-> stock_qty[r]]]
           ELSE IF p = o /\ event = "released"
           THEN [rest EXCEPT !.released = @ + 1]
           ELSE rest]

\* The external catalog after a request that returned res: the views that
\* reserved or released the lines of order o push the saved quantities of
\* those lines, and every push is lost unless the catalog answers.
pushed(w, res, o, woo) ==
    IF res.resp.code \in {"submitted", "cancelled"}
    THEN push_stock(w, res.db, res.db.items[o], IF woo = "ok" THEN "ok" ELSE "down")
    ELSE w

\* ------------------------------------------- np_api: the order's weight
\* (variant: a line weighed by its own row only, no fallback to the product)
per_g_of_row(w, it) == w[it.row]

\* The weight of one piece of a line, in grams: the variant's weight_g when
\* the line has a variant whose weight_g is not zero, else the product's.
per_g(w, it) ==
    IF it.row \in Variants /\ w[it.row] # 0 THEN w[it.row]
    ELSE w[product_of(it.row)]

\* total_g after the loop over order.items
RECURSIVE total_g(_, _)
total_g(w, s) ==
    IF s = <<>> THEN 0 ELSE per_g(w, Head(s)) * Head(s).qty + total_g(w, Tail(s))

\* round(kg + 1e-9, 1) of kg = g / 1000.0, counted in tenths of a kilogram:
\* the 1e-9 lifts an exact half (g = 50, 150, ...) over the tie.
round_kg(g) == (g + 50) \div 100

\* _compute_order_weight_kg(order), in tenths of a kilogram: 0.1 kg when the
\* lines weigh nothing, and the rounding applied to whatever kg is by then.
_compute_order_weight_kg(w, s) ==
    LET g == total_g(w, s)
    IN IF g <= 0 THEN round_kg(100) ELSE round_kg(g)

\* No InternetDocument saved yet.
NoDocument == [saved |-> FALSE, total_g |-> 0, Weight |-> 0]

\* create_ttn(order): the properties of the InternetDocument it saves (its
\* Weight, and the grams the Weight was computed from).
create_ttn(w, s) ==
    [saved |-> TRUE, total_g |-> total_g(w, s),
     Weight |-> _compute_order_weight_kg(w, s)]

\* Nova Poshta after a request that returned res: a ship that went through
\* saved the document of order o.
documented(doc, w, res, o) ==
    IF res.resp.code = "shipped" THEN create_ttn(w, res.db.items[o]) ELSE doc

\* A request that runs alone: it reads the database, commits its result.
Request(res, o, event, woo) ==
    /\ Bounded(res)
    /\ LedgerBounded(Tracked(res, o, event))
    /\ Commit(res)
    /\ woo_stock' = pushed(woo_stock, res, o, woo)
    /\ np_document' = documented(np_document, weight_g, res, o)
    /\ ledger' = Tracked(res, o, event)
    /\ UNCHANGED <<opening, tx, weight_g>>

\* The same, with every notification it sends delivered.
Serial(res, o, event, woo) ==
    /\ Request(res, o, event, woo)
    /\ mail' = "up"

AddToCart(users, products) ==
    \E user \in users, product_id \in products, qty \in QtyInputs :
        Serial(add_to_cart(DB, user, product_id, qty), 0, "none", "none")

AddToCartWithAttrs(users, products) ==
    \E user \in users, product_id \in products, qty \in QtyInputs,
       selected \in Variants \cup {"nomatch"} :
        Serial(add_to_cart_with_attrs(DB, user, product_id, qty, selected), 0, "none", "none")

CartUpdateItem(users) ==
    \E user \in users, o \in ExistingOrders :
        \E idx \in 1..Len(items[o]), in \in UpdateInputs :
            Serial(cart_update_item(DB, user, o, idx, in[1], in[2]), 0, "none", "none")

CartRemoveItem(users) ==
    \E user \in users, o \in ExistingOrders :
        \E idx \in 1..Len(items[o]) :
            Serial(cart_remove_item(DB, user, o, idx), 0, "none", "none")

CartClear(users) ==
    \E user \in users : Serial(cart_clear(DB, user), 0, "none", "none")

SubmitOrder(users, outcomes) ==
    \E user \in users, woo \in outcomes :
        LET res == submit_order(DB, user, woo)
        IN Serial(res, first_draft(DB, user),
                  IF res.resp.code = "submitted" THEN "reserved" ELSE "none", woo)

OrderCheckoutConfirm(users, outcomes) ==
    \E user \in users, address_id \in Addresses, woo \in outcomes :
        LET res == order_checkout_confirm(DB, user, address_id, woo)
        IN Serial(res, first_draft(DB, user),
                  IF res.resp.code = "submitted" THEN "reserved" ELSE "none", woo)

OrderAdminAction(users, outcomes) ==
    \E user \in users, o \in ExistingOrders, in \in AdminInputs, woo \in outcomes :
        LET res == order_admin_action(DB, user, o, in[1], in[2])
        IN Serial(res, o, IF res.resp.code = "cancelled" THEN "released" ELSE "none", woo)

ProductUpdateInline(users, products) ==
    \E user \in users, product_id \in products, post_stock \in PostStockInputs :
        Serial(product_update_inline(DB, user, product_id, PostAbsent, post_stock,
                                     is_active[product_id]), 0, "none", "none")

\* the same view, posting a wholesale_price
PostPriceInputs == {PostInt(n) : n \in 0..MaxPrice} \cup {PostJunk}

ProductUpdatePrice(users, products) ==
    \E user \in users, product_id \in products, post_price \in PostPriceInputs :
        Serial(product_update_inline(DB, user, product_id, post_price, PostAbsent,
                                     is_active[product_id]), 0, "none", "none")

OrderSetStatus(users) ==
    \E user \in users, o \in ExistingOrders, status \in STATUS_CHOICES \cup {"paid"} :
        Serial(order_set_status(DB, user, o, status), 0, "none", "none")

OrderDelete(users) ==
    \E user \in users, o \in ExistingOrders :
        Serial(order_delete(DB, user, o), 0, "none", "none")

\* ------------------------------------------------------------------- Init
\* The catalog after the import: every row active, priced and in stock.
InitCatalog ==
    /\ wholesale_price = [r \in Rows |-> IF r = "P1" THEN 1 ELSE 2]
    /\ is_active = [r \in Rows |-> TRUE]
    /\ weight_g = [r \in Rows |-> 0]

InitIdle ==
    /\ woo_stock = stock_qty
    /\ mail = "up"
    /\ np_document = NoDocument
    /\ response = Resp("none")
    /\ ledger = [o \in OrderIds |-> NoLedger]
    /\ opening = stock_qty
    /\ tx = [r \in Requests |-> IdleTx]

\* The shop before any order: P1 fully stocked, one piece of the variant V1
\* (and so of its product P2, the aggregate).
Init ==
    /\ InitCatalog
    /\ stock_qty = [r \in Rows |-> IF r = "P1" THEN MaxStock ELSE 1]
    /\ orders = [o \in OrderIds |-> NoOrder]
    /\ items = [o \in OrderIds |-> <<>>]
    /\ next_order_id = 1
    /\ InitIdle

\* One dealer shops (a simple product, and a variant by its attributes) and
\* submits; the staff and another dealer act on the orders and the stock.
\* The external catalog is out of reach throughout (the specifications below
\* have it answer).
Next ==
    \/ AddToCart({"d1"}, {"P1"})
    \/ AddToCartWithAttrs({"d1"}, {"P2"})
    \/ CartUpdateItem({"d1"})
    \/ CartRemoveItem({"d1"})
    \/ CartClear({"d1"})
    \/ SubmitOrder({"d1"}, {"down", "no_client"})
    \/ OrderAdminAction({"staff", "d2"}, {"down"})
    \/ ProductUpdateInline({"staff", "d2"}, {"P1"})
    \/ OrderDelete({"d1"})

Spec == Init /\ [][Next]_vars

\* ------------------------------------------------------- orders under way
\* A line as add_to_cart leaves it: the row, a quantity, the price snapshot.
Line(row, qty) == [row |-> row, qty |-> qty, price |-> IF row = "P1" THEN 1 ELSE 2]
\* A draft as the cart views leave it: recalc ran after the last change.
Draft(user, lines) == [NewOrder(user) EXCEPT !.subtotal = SumLines(lines),
                                             !.total = SumLines(lines)]
\* The carts of one or two lines a dealer can have built.
Carts == {<<Line(r, q)>> : r \in {"P1", "V1"}, q \in 1..MaxQty}
             \cup {<<Line("P1", q), Line("V1", k)>> : q \in 1..MaxQty, k \in 1..MaxQty}

\* -------------------------------------------- the deprecated status setter
\* One draft of d1 is in the shop; d1 submits, the staff acts on the order
\* and also uses orders/<id>/set_status/, which urls.py still routes.
InitStatus ==
    /\ InitCatalog
    /\ stock_qty = [r \in Rows |-> MaxStock]
    /\ \E cart \in Carts :
        /\ orders = [o \in OrderIds |-> IF o = 1 THEN Draft("d1", cart) ELSE NoOrder]
        /\ items = [o \in OrderIds |-> IF o = 1 THEN cart ELSE <<>>]
    /\ next_order_id = 2
    /\ InitIdle

NextStatus ==
    \/ SubmitOrder({"d1"}, WooOutcomes)
    \/ OrderAdminAction({"staff", "d2"}, {"ok", "down"})
    \/ OrderSetStatus({"staff", "d2"})

SpecStatus == InitStatus /\ [][NextStatus]_vars

\* ---------------------------------------------------- three drafts, one unit
\* Unit P1 has 5 on hand; d1, d2 and d3 hold the drafts 1 (3 of P1),
\* 2 (5 of P1) and 3 (1 of P1). The dealers submit, the staff acts.
InitScenario ==
    /\ InitCatalog
    /\ stock_qty = [r \in Rows |-> 5]
    /\ orders = [o \in OrderIds |-> IF o = 1 THEN Draft("d1", <<Line("P1", 3)>>)
                                    ELSE IF o = 2 THEN Draft("d2", <<Line("P1", 5)>>)
                                    ELSE IF o = 3 THEN Draft("d3", <<Line("P1", 1)>>)
                                    ELSE NoOrder]
    /\ items = [o \in OrderIds |-> IF o = 1 THEN <<Line("P1", 3)>>
                                   ELSE IF o = 2 THEN <<Line("P1", 5)>>
                                   ELSE IF o = 3 THEN <<Line("P1", 1)>>
                                   ELSE <<>>]
    /\ next_order_id = 4
    /\ InitIdle

NextScenario ==
    \/ SubmitOrder({"d1", "d2", "d3"}, WooOutcomes)
    \/ OrderAdminAction({"staff"}, {"ok", "down"})

SpecScenario == InitScenario /\ [][NextScenario]_vars

\* ----------------------------------------------------------- transactions
\* submit_order and order_checkout_confirm run under @transaction.atomic on
\* the sqlite3 database of settings.DATABASES: a transaction reads under a
\* shared lock, takes the write lock at its first UPDATE and commits when
\* no other connection reads; a connection that is refused the lock gets
\* OperationalError("database is locked") and its transaction is rolled back.

\* The view an open transaction runs, on the database it read.
run(q) ==
    IF q.op = "submit_order" THEN submit_order(q.snap, q.user, q.woo)
    ELSE IF q.op = "add_to_cart"
    THEN add_to_cart(q.snap, q.user, q.product_id, q.qty)
    ELSE IF q.op = "add_to_cart_with_attrs"
    THEN add_to_cart_with_attrs(q.snap, q.user, q.product_id, q.qty, q.selected)
    ELSE IF q.op = "order_admin_action"
    THEN order_admin_action(q.snap, q.user, q.order_id, q.action, q.np)
    ELSE IF q.op = "cart_update_item"
    THEN cart_update_item(q.snap, q.user, q.order_id, q.idx, q.edit, q.post_qty)
    ELSE IF q.op = "cart_remove_item"
    THEN cart_remove_item(q.snap, q.user, q.order_id, q.idx)
    ELSE order_checkout_confirm(q.snap, q.user, address_of(q.user), q.woo)

\* The order a transaction works on, and what its commit does to the
\* order's reservation.
tx_order(q) ==
    IF q.op = "order_admin_action" THEN q.order_id ELSE first_draft(q.snap, q.user)

tx_event(res) ==
    IF res.resp.code = "submitted" THEN "reserved"
    ELSE IF res.resp.code = "cancelled" THEN "released" ELSE "none"

\* The transaction reaches an UPDATE: the saves come before WooClient().
writes(q) == run([q EXCEPT !.woo = "ok"]).db # q.snap

\* (variant: a database that never refuses a lock)
lock_never_refused(r) == TRUE

\* No other connection holds a lock on the database file.
lock_granted(r) == \A r2 \in Requests \ {r} : tx[r2].pc = "idle"

\* The OrderItem rows of one order after a transaction wrote them: the rows
\* it deleted are gone, the rows it saved take its values, the rows it
\* inserted come after the rows the table holds, every other row stays.
written_items(cur, snap, new) ==
    LET rows_of(s) == {s[i].row : i \in 1..Len(s)}
        saved_as(row) == new[CHOOSE i \in 1..Len(new) : new[i].row = row]
        read_as(row) == snap[CHOOSE i \in 1..Len(snap) : snap[i].row = row]
        stays(it) == ~(it.row \in rows_of(snap) /\ it.row \notin rows_of(new))
        inserted(it) == it.row \notin rows_of(snap)
        left == SelectSeq(cur, stays)
    IN [i \in 1..Len(left) |->
            IF left[i].row \in rows_of(snap) /\ saved_as(left[i].row) # read_as(left[i].row)
            THEN saved_as(left[i].row) ELSE left[i]]
          \o SelectSeq(new, inserted)

\* save(update_fields=[...]): the rows a transaction changed take its values,
\* every other row keeps what the database holds.
written(cur, snap, new) ==
    [stock_qty |-> [r \in Rows |-> IF new.stock_qty[r] # snap.stock_qty[r]
                                   THEN new.stock_qty[r] ELSE cur.stock_qty[r]],
     wholesale_price |-> cur.wholesale_price,
     is_active |-> cur.is_active,
     orders |-> [o \in OrderIds |-> IF new.orders[o] # snap.orders[o]
                                    THEN new.orders[o] ELSE cur.orders[o]],
     items |-> [o \in OrderIds |-> IF new.items[o] # snap.items[o]
                                   THEN written_items(cur.items[o], snap.items[o],
                                                      new.items[o])
                                   ELSE cur.items[o]],
     next_order_id |-> Max(cur.next_order_id, new.next_order_id)]

\* A request enters its view: BEGIN, and the queries read the database.
TxBegin(users) ==
    \E r \in Requests, op \in {"submit_order", "order_checkout_confirm"},
       woo \in WooOutcomes :
        /\ tx[r].pc = "idle"
        /\ users[r] # ""
        /\ tx' = [tx EXCEPT ![r] = [pc |-> "open", op |-> op, user |-> users[r],
                                    woo |-> woo, snap |-> DB]]
        /\ UNCHANGED <<stock_qty, wholesale_price, is_active, weight_g, orders, items,
                       next_order_id, woo_stock, mail, np_document, response,
                       ledger, opening>>

\* The view returns before any UPDATE (empty cart, insufficient stock).
TxReturn ==
    \E r \in Requests :
        /\ tx[r].pc = "open"
        /\ ~writes(tx[r])
        /\ response' = run(tx[r]).resp
        /\ tx' = [tx EXCEPT ![r] = IdleTx]
        /\ UNCHANGED <<stock_qty, wholesale_price, is_active, weight_g, orders, items,
                       next_order_id, woo_stock, mail, np_document, ledger, opening>>

\* The view writes and the transaction ends: committed, or rolled back by
\* the exception of WooClient().
TxCommit ==
    \E r \in Requests :
        LET q == tx[r]
            res == Result(written(DB, q.snap, run(q).db), run(q).resp)
        IN /\ tx[r].pc = "open"
           /\ writes(q)
           /\ lock_granted(r)
           /\ Bounded(res)
           /\ Commit(res)
           /\ woo_stock' = pushed(woo_stock, res, tx_order(q), q.woo)
           /\ np_document' = documented(np_document, weight_g, res, tx_order(q))
           /\ ledger' = Tracked(res, tx_order(q), tx_event(res))
           /\ tx' = [tx EXCEPT ![r] = IdleTx]
           /\ UNCHANGED <<opening, mail, weight_g>>

\* The view is refused the write lock: "database is locked", rolled back.
\* A ship comes to its first UPDATE, order.save, after create_ttn returned:
\* the document it saved at Nova Poshta is not part of the transaction.
TxLocked ==
    \E r \in Requests :
        /\ tx[r].pc = "open"
        /\ writes(tx[r])
        /\ ~lock_granted(r)
        /\ response' = Resp("database_locked")
        /\ np_document' = documented(np_document, weight_g, run(tx[r]), tx_order(tx[r]))
        /\ tx' = [tx EXCEPT ![r] = IdleTx]
        /\ UNCHANGED <<stock_qty, wholesale_price, is_active, weight_g, orders, items,
                       next_order_id, woo_stock, mail, ledger, opening>>

\* Two dealers hold drafts that compete for P1; d1's cart may also hold a
\* line on V1, of which 1 is on hand. Each sends submit requests, by either
\* view, which overlap in any way.
InitTx ==
    /\ InitCatalog
    /\ \E q \in 1..MaxStock : stock_qty = [r \in Rows |-> IF r = "P1" THEN q ELSE 1]
    /\ \E c1 \in {c \in Carts : c[1].row = "P1"}, c2 \in {c \in Carts : c[1].row = "P1" /\ Len(c) = 1} :
        /\ orders = [o \in OrderIds |-> IF o = 1 THEN Draft("d1", c1)
                                        ELSE IF o = 2 THEN Draft("d2", c2) ELSE NoOrder]
        /\ items = [o \in OrderIds |-> IF o = 1 THEN c1 ELSE IF o = 2 THEN c2 ELSE <<>>]
    /\ next_order_id = 3
    /\ InitIdle

NextTx ==
    \/ TxBegin(<<"d1", "d2">>)
    \/ TxReturn
    \/ TxCommit
    \/ TxLocked

SpecTx == InitTx /\ [][NextTx]_vars

\* ---------------------------------------------- two additions at one time
\* add_to_cart and add_to_cart_with_attrs run under @transaction.atomic as
\* well. A request enters one of them: BEGIN, and the queries read.
TxBeginCart(users, products) ==
    \E r \in Requests, op \in {"add_to_cart", "add_to_cart_with_attrs"},
       product_id \in products, qty \in 1..MaxQty :
        /\ tx[r].pc = "idle"
        /\ users[r] # ""
        /\ tx' = [tx EXCEPT ![r] = [pc |-> "open", op |-> op, user |-> users[r],
                                    woo |-> "none", snap |-> DB,
                                    product_id |-> product_id, qty |-> qty,
                                    selected |-> "V1"]]
        /\ UNCHANGED <<stock_qty, wholesale_price, is_active, weight_g, orders, items,
                       next_order_id, woo_stock, mail, np_document, response,
                       ledger, opening>>

\* d1 has no draft, an empty draft, or a draft of one line, and sends
\* additions from two tabs, which overlap in any way.
InitTxCart ==
    /\ InitCatalog
    /\ stock_qty = [r \in Rows |-> MaxStock]
    /\ \/ /\ orders = [o \in OrderIds |-> NoOrder]
          /\ items = [o \in OrderIds |-> <<>>]
          /\ next_order_id = 1
       \/ /\ \E cart \in {<<>>} \cup {c \in Carts : Len(c) = 1} :
                /\ orders = [o \in OrderIds |-> IF o = 1 THEN Draft("d1", cart) ELSE NoOrder]
                /\ items = [o \in OrderIds |-> IF o = 1 THEN cart ELSE <<>>]
          /\ next_order_id = 2
    /\ InitIdle

NextTxCart ==
    \/ TxBeginCart(<<"d1", "d1">>, Products)
    \/ TxReturn
    \/ TxCommit
    \/ TxLocked

SpecTxCart == InitTxCart /\ [][NextTxCart]_vars

\* -------------------------------------------------------- the double click
\* d1 holds one draft and sends submit requests, by either view, from two
\* tabs (or twice from one), which overlap in any way.
InitDouble ==
    /\ InitCatalog
    /\ stock_qty = [r \in Rows |-> MaxStock]
    /\ \E cart \in Carts :
        /\ orders = [o \in OrderIds |-> IF o = 1 THEN Draft("d1", cart) ELSE NoOrder]
        /\ items = [o \in OrderIds |-> IF o = 1 THEN cart ELSE <<>>]
    /\ next_order_id = 2
    /\ InitIdle

NextDouble ==
    \/ TxBegin(<<"d1", "d1">>)
    \/ TxReturn
    \/ TxCommit
    \/ TxLocked

SpecDouble == InitDouble /\ [][NextDouble]_vars

\* ------------------------------------------- two staff requests at one time
\* order_admin_action runs under @transaction.atomic as well. A staff
\* request enters it: BEGIN, and get_object_or_404 reads the order.
TxBeginAdmin(users) ==
    \E r \in Requests, o \in ExistingOrders, in \in AdminInputs, woo \in {"ok", "down"} :
        /\ tx[r].pc = "idle"
        /\ users[r] # ""
        /\ tx' = [tx EXCEPT ![r] = [pc |-> "open", op |-> "order_admin_action",
                                    user |-> users[r], woo |-> woo, snap |-> DB,
                                    order_id |-> o, action |-> in[1], np |-> in[2]]]
        /\ UNCHANGED <<stock_qty, wholesale_price, is_active, weight_g, orders, items,
                       next_order_id, woo_stock, mail, np_document, response,
                       ledger, opening>>

\* Order 1 of d1 was submitted, and perhaps confirmed: its lines are taken
\* from the stock. Two staff users act on it at the same time.
InitAdminTx ==
    /\ InitCatalog
    /\ \E cart \in Carts, status \in {"submitted", "pending_payment"} :
          LET d == [stock_qty |-> [r \in Rows |-> MaxStock],
                    wholesale_price |-> wholesale_price,
                    is_active |-> is_active,
                    orders |-> [o \in OrderIds |-> IF o = 1 THEN Draft("d1", cart) ELSE NoOrder],
                    items |-> [o \in OrderIds |-> IF o = 1 THEN cart ELSE <<>>],
                    next_order_id |-> 2]
          IN /\ stock_qty = reserve(d, 1).stock_qty
             /\ orders = [d.orders EXCEPT ![1].status = status]
             /\ items = d.items
    /\ next_order_id = 2
    /\ InitIdle

NextAdminTx ==
    \/ TxBeginAdmin(<<"staff", "staff">>)
    \/ TxReturn
    \/ TxCommit
    \/ TxLocked

SpecAdminTx == InitAdminTx /\ [][NextAdminTx]_vars

\* ------------------------------------------- a submit and an edit at one time
\* cart_update_item and cart_remove_item run under @transaction.atomic as
\* well. A request enters one of them: BEGIN, and get_object_or_404 reads
\* the item with its order.
TxBeginEdit(users) ==
    \E r \in Requests, o \in ExistingOrders, op \in {"cart_update_item", "cart_remove_item"} :
        \E idx \in 1..Len(items[o]), in \in UpdateInputs :
            /\ tx[r].pc = "idle"
            /\ users[r] # ""
            /\ op = "cart_remove_item" => in = <<"dec", PostAbsent>>
            /\ tx' = [tx EXCEPT ![r] = [pc |-> "open", op |-> op, user |-> users[r],
                                        woo |-> "none", snap |-> DB, order_id |-> o,
                                        idx |-> idx, edit |-> in[1], post_qty |-> in[2]]]
            /\ UNCHANGED <<stock_qty, wholesale_price, is_active, weight_g, orders, items,
                           next_order_id, woo_stock, mail, np_document, response,
                           ledger, opening>>

\* The staff cancels, from one connection.
TxBeginCancel(users) ==
    \E r \in Requests, o \in ExistingOrders :
        /\ tx[r].pc = "idle"
        /\ users[r] # ""
        /\ tx' = [tx EXCEPT ![r] = [pc |-> "open", op |-> "order_admin_action",
                                    user |-> users[r], woo |-> "ok", snap |-> DB,
                                    order_id |-> o, action |-> "cancel", np |-> "raise"]]
        /\ UNCHANGED <<stock_qty, wholesale_price, is_active, weight_g, orders, items,
                       next_order_id, woo_stock, mail, np_document, response,
                       ledger, opening>>

\* d1 holds one draft, submits it in one tab and edits its lines in another;
\* the staff cancels what was submitted.
NextTxEdit ==
    \/ TxBegin(<<"d1", "">>)
    \/ TxBeginEdit(<<"", "d1">>)
    \/ TxBeginCancel(<<"staff", "">>)
    \/ TxReturn
    \/ TxCommit
    \/ TxLocked

SpecTxEdit == InitDouble /\ [][NextTxEdit]_vars

\* ------------------------------------------------------ the catalog client
\* WooClient.update_stock and update_variation_stock called on their own: any
\* unit, any quantity, any network outcome, one call after the other.

\* What a call leaves with its caller, and whether it repeats the call
\* before it, which timed out.
Put(unit, qty, net) ==
    [code |-> "put", unit |-> unit, stock_quantity |-> qty, net |-> net,
     retry |-> /\ response.code = "put"
               /\ response.net = "timeout"
               /\ response.unit = unit
               /\ response.stock_quantity = qty]

UpdateStock ==
    \E p \in Products, qty \in 0..MaxStock, net \in NetOutcomes :
        /\ woo_stock' = update_stock(woo_stock, woo_id(p), qty, net)
        /\ response' = Put(woo_id(p), qty, net)
        /\ UNCHANGED <<stock_qty, wholesale_price, is_active, weight_g, orders, items,
                       next_order_id, mail, np_document, ledger, opening, tx>>

UpdateVariationStock ==
    \E v \in Variants, qty \in 0..MaxStock, net \in NetOutcomes :
        /\ woo_stock' = update_variation_stock(woo_stock, woo_id(product_of(v)),
                                               ProductVariant_woo_variation_id(v), qty, net)
        /\ response' = Put(ProductVariant_woo_variation_id(v), qty, net)
        /\ UNCHANGED <<stock_qty, wholesale_price, is_active, weight_g, orders, items,
                       next_order_id, mail, np_document, ledger, opening, tx>>

NextWoo ==
    \/ UpdateStock
    \/ UpdateVariationStock

SpecWoo == Init /\ [][NextWoo]_vars

\* ------------------------------------------------------ a dealer's drafts
\* d1 shops and submits while the staff sets statuses through
\* orders/<id>/set-status/<status>/.
NextDrafts ==
    \/ AddToCart({"d1"}, {"P1"})
    \/ AddToCartWithAttrs({"d1"}, {"P2"})
    \/ SubmitOrder({"d1"}, {"ok"})
    \/ OrderSetStatus({"staff"})

SpecDrafts == Init /\ [][NextDrafts]_vars

\* ------------------------------------------------ the product with variants
\* d1 asks for P2, the product with the variant V1, through both add views
\* (add/<product_id>/ takes the id of any active product), and submits; the
\* staff acts on the orders.
InitVariants ==
    /\ InitCatalog
    /\ stock_qty = [r \in Rows |-> MaxStock]
    /\ orders = [o \in OrderIds |-> NoOrder]
    /\ items = [o \in OrderIds |-> <<>>]
    /\ next_order_id = 1
    /\ InitIdle

NextVariants ==
    \/ AddToCart({"d1"}, {"P2"})
    \/ AddToCartWithAttrs({"d1"}, {"P2"})
    \/ SubmitOrder({"d1"}, {"ok", "down"})
    \/ OrderAdminAction({"staff"}, {"ok", "down"})

SpecVariants == InitVariants /\ [][NextVariants]_vars

\* ------------------------------------------------------- deleting orders
\* The three drafts again: the dealers submit, the staff acts, and d2 asks
\* to delete orders, their own and the others'.
Deleters == {"d2"}

NextDelete ==
    \/ SubmitOrder({"d1", "d2", "d3"}, {"ok"})
    \/ OrderAdminAction({"staff"}, {"ok"})
    \/ OrderDelete(Deleters)

SpecDelete == InitScenario /\ [][NextDelete]_vars

\* ------------------------------------------------- another dealer's order
\* Order 1 of d1 is in the shop in any status, with the on-hand quantities
\* its submit left (restored if it was cancelled). d2, a dealer and not
\* staff, shops and sends every request there is, for every order.
InitOthers ==
    /\ InitCatalog
    /\ \E cart \in Carts, status \in STATUS_CHOICES :
          LET d == [stock_qty |-> [r \in Rows |-> MaxStock],
                    wholesale_price |-> wholesale_price,
                    is_active |-> is_active,
                    orders |-> [o \in OrderIds |-> IF o = 1 THEN Draft("d1", cart) ELSE NoOrder],
                    items |-> [o \in OrderIds |-> IF o = 1 THEN cart ELSE <<>>],
                    next_order_id |-> 2]
          IN /\ stock_qty = IF status \in {"submitted", "pending_payment", "shipped"}
                            THEN reserve(d, 1).stock_qty ELSE d.stock_qty
             /\ orders = [d.orders EXCEPT
                              ![1].status = status,
                              ![1].shipping_ttn = IF status = "shipped" THEN "TTN" ELSE "",
                              ![1].shipping_np_ref = IF status = "shipped" THEN "REF" ELSE "",
                              ![1].shipped_at = (status = "shipped")]
             /\ items = d.items
    /\ next_order_id = 2
    /\ InitIdle

NextOthers ==
    \/ AddToCart({"d2"}, {"P1"})
    \/ CartUpdateItem({"d2"})
    \/ CartRemoveItem({"d2"})
    \/ CartClear({"d2"})
    \/ SubmitOrder({"d2"}, {"ok"})
    \/ OrderAdminAction({"d2"}, {"ok"})
    \/ ProductUpdateInline({"d2"}, {"P1"})
    \/ OrderSetStatus({"d2"})
    \/ OrderDelete({"d2"})

SpecOthers == InitOthers /\ [][NextOthers]_vars

\* ------------------------------------------------------------ catalog sync
\* The two pulls from the external catalog: the command sync_woo and the
\* admin action sync_with_woo. Neither runs in a transaction: what it saved
\* before an exception stays saved. The catalog lists every product
\* (status=publish) with its stock_quantity, where null reads as 0.

\* net of a sync: "ok"; "down": fetch_products raises; "push_down": the
\* fetches answer, the PUTs raise; "variations_down": fetch_variations raises.
Synced(d, w, code) == [db |-> d, resp |-> Resp(code), woo |-> w]

\* the push loop of sync_woo over the products S, stopped by the first raise
RECURSIVE sync_woo_push(_, _, _, _)
sync_woo_push(w, d, S, net) ==
    IF S = {} THEN w
    ELSE LET p == CHOOSE x \in S : TRUE
         IN sync_woo_push(update_stock(w, woo_id(p), d.stock_qty[p], net), d, S \ {p}, net)

\* Command.handle of sync_woo
sync_woo_handle(d, w, net) ==
    IF net = "down" THEN Synced(d, w, "500")
    ELSE LET \* p.stock_qty = wp.get('stock_quantity') or p.stock_qty
             pulled == [d EXCEPT
                 !.stock_qty = [r \in Rows |->
                     IF r \in Products /\ w[r] # 0 THEN w[r] ELSE d.stock_qty[r]],
                 !.is_active = [r \in Rows |-> IF r \in Products THEN TRUE ELSE d.is_active[r]]]
             \* int(wp_stock) != int(p.stock_qty)
             stale == {p \in Products : w[p] # pulled.stock_qty[p]}
         IN IF stale = {} THEN Synced(pulled, w, "synced")
            ELSE IF net # "ok" THEN Synced(pulled, w, "500")
            ELSE Synced(pulled, sync_woo_push(w, pulled, stale, "ok"), "synced")

\* (variant: a pull that gives every variant its product's wholesale price)
variant_price_of_product(d, v) == d.wholesale_price[product_of(v)]

\* if not var.wholesale_price: var.wholesale_price = p.wholesale_price
variant_wholesale_price(d, v) ==
    IF d.wholesale_price[v] = 0 THEN d.wholesale_price[product_of(v)]
    ELSE d.wholesale_price[v]

\* sync_with_woo of the admin: the stock of a product is set when the row
\* is created only; the variants of a variable product take the external
\* stock_quantity and the product the sum over the variations fetched.
sync_with_woo(d, w, net) ==
    IF net = "down" THEN Synced(d, w, "500")
    ELSE LET variable == {p \in Products : has_variants(p) /\ net = "ok"}
             fetched == {v \in Variants : product_of(v) \in variable}
         IN Synced([d EXCEPT
                 !.stock_qty = [r \in Rows |->
                     IF r \in fetched THEN w[r]
                     ELSE IF r \in variable
                     THEN SumOver(w, {v \in Variants : product_of(v) = r})
                     ELSE d.stock_qty[r]],
                 !.wholesale_price = [r \in Rows |->
                     IF r \in fetched THEN variant_wholesale_price(d, r)
                     ELSE d.wholesale_price[r]],
                 !.is_active = [r \in Rows |->
                     IF r \in Products \/ r \in fetched THEN TRUE ELSE d.is_active[r]]],
                    w, "synced")

\* A sync that ran alone.
CommitSync(res) ==
    /\ Commit(res)
    /\ woo_stock' = res.woo
    /\ ledger' = Tracked(res, 0, "none")
    /\ UNCHANGED <<opening, tx, mail, weight_g, np_document>>

SyncWoo ==
    \E net \in {"ok", "down", "push_down"} :
        CommitSync(sync_woo_handle(DB, woo_stock, net))

SyncWithWoo ==
    \E net \in {"ok", "down", "variations_down"} :
        CommitSync(sync_with_woo(DB, woo_stock, net))

\* d1 holds a draft and submits, the staff acts on the order, the pushes
\* reach the catalog or fail, and the catalog is synced by either pull.
NextSync ==
    \/ SubmitOrder({"d1"}, {"ok", "down"})
    \/ OrderAdminAction({"staff"}, {"ok", "down"})
    \/ SyncWoo
    \/ SyncWithWoo

SpecSync == InitStatus /\ [][NextSync]_vars

\* ------------------------------------------------- prices and the pulls
\* The catalog as first imported: no wholesale price is set yet. The staff
\* sets the prices of the products, and the catalog is pulled by either sync.
InitPrices ==
    /\ wholesale_price = [r \in Rows |-> 0]
    /\ is_active = [r \in Rows |-> TRUE]
    /\ weight_g = [r \in Rows |-> 0]
    /\ stock_qty = [r \in Rows |-> MaxStock]
    /\ orders = [o \in OrderIds |-> NoOrder]
    /\ items = [o \in OrderIds |-> <<>>]
    /\ next_order_id = 1
    /\ InitIdle

NextPrices ==
    \/ ProductUpdatePrice({"staff"}, Products)
    \/ SyncWoo
    \/ SyncWithWoo

SpecPrices == InitPrices /\ [][NextPrices]_vars

\* ----------------------------------------------------------- notifications
\* After their saves submit_order, order_checkout_confirm and the confirm and
\* ship branches of order_admin_action send e-mail (send_mail,
\* EmailMessage.send) and Telegram messages (tg.send_message,
\* tg.notify_admins). m: the servers deliver ("up") or every send raises
\* ("down").
NotifyOutcomes == {"up", "down"}

\* (variant: notifications sent outside any try, so that a raise leaves the
\* atomic view and rolls its saves back)
notify_unguarded(d, res, m) ==
    IF m = "down" /\ res.resp.code \in {"submitted", "confirmed", "shipped"}
    THEN Result(d, Resp("500")) ELSE res

\* try: <send> except Exception: pass, around every send
notify(d, res, m) == res

SubmitOrderNotifying(users) ==
    \E user \in users, m \in NotifyOutcomes :
        LET res == notify(DB, submit_order(DB, user, "ok"), m)
        IN /\ Request(res, first_draft(DB, user),
                      IF res.resp.code = "submitted" THEN "reserved" ELSE "none", "ok")
           /\ mail' = m

OrderCheckoutConfirmNotifying(users) ==
    \E user \in users, m \in NotifyOutcomes :
        LET res == notify(DB, order_checkout_confirm(DB, user, address_of(user), "ok"), m)
        IN /\ Request(res, first_draft(DB, user),
                      IF res.resp.code = "submitted" THEN "reserved" ELSE "none", "ok")
           /\ mail' = m

OrderAdminActionNotifying(users) ==
    \E user \in users, o \in ExistingOrders, in \in AdminInputs, m \in NotifyOutcomes :
        LET res == notify(DB, order_admin_action(DB, user, o, in[1], in[2]), m)
        IN /\ Request(res, o, IF res.resp.code = "cancelled" THEN "released" ELSE "none",
                      "ok")
           /\ mail' = m

\* d1 holds a draft and submits it by either view; the staff acts on it.
NextNotify ==
    \/ SubmitOrderNotifying({"d1"})
    \/ OrderCheckoutConfirmNotifying({"d1"})
    \/ OrderAdminActionNotifying({"staff"})

SpecNotify == InitStatus /\ [][NextNotify]_vars

\* ------------------------------------------------ the shipping document
\* The catalog gives each row a weight_g, 0 where it gives none; d1's draft
\* is submitted, confirmed and shipped, and the ship saves the document.
WeightInputs == {0, 20, 50, MaxWeight}

InitWeight ==
    /\ wholesale_price = [r \in Rows |-> IF r = "P1" THEN 1 ELSE 2]
    /\ is_active = [r \in Rows |-> TRUE]
    /\ weight_g \in [Rows -> WeightInputs]
    /\ stock_qty = [r \in Rows |-> MaxStock]
    /\ \E cart \in Carts :
        /\ orders = [o \in OrderIds |-> IF o = 1 THEN Draft("d1", cart) ELSE NoOrder]
        /\ items = [o \in OrderIds |-> IF o = 1 THEN cart ELSE <<>>]
    /\ next_order_id = 2
    /\ InitIdle

NextWeight ==
    \/ SubmitOrder({"d1"}, {"ok"})
    \/ OrderAdminAction({"staff"}, {"ok"})

SpecWeight == InitWeight /\ [][NextWeight]_vars

\* ------------------------------------------------------------ line prices
\* No price is set yet and nobody has a cart. The staff edits product
\* prices inline, the catalog pull gives a variant without a price its
\* product's, and d1 fills and edits a cart all along.
NextLinePrice ==
    \/ AddToCart({"d1"}, {"P1"})
    \/ AddToCartWithAttrs({"d1"}, {"P2"})
    \/ CartUpdateItem({"d1"})
    \/ ProductUpdatePrice({"staff"}, Products)
    \/ SyncWithWoo

SpecLinePrice == InitPrices /\ [][NextLinePrice]_vars

\* ---------------------------------------------------------------- the cart
\* Any quantity of each unit is on hand, none included, and nobody has a
\* cart; d1 adds units by either view and edits the lines.
InitCart ==
    /\ InitCatalog
    /\ stock_qty \in [Rows -> 0..MaxStock]
    /\ orders = [o \in OrderIds |-> NoOrder]
    /\ items = [o \in OrderIds |-> <<>>]
    /\ next_order_id = 1
    /\ InitIdle

NextCart ==
    \/ AddToCart({"d1"}, Products)
    \/ AddToCartWithAttrs({"d1"}, Products)
    \/ CartUpdateItem({"d1"})

SpecCart == InitCart /\ [][NextCart]_vars

\* The same shop, where d1 only adds.
NextAdd ==
    \/ AddToCart({"d1"}, Products)
    \/ AddToCartWithAttrs({"d1"}, Products)

SpecAdd == InitCart /\ [][NextAdd]_vars

\* ------------------------------------------------------- the checkout path
\* Any quantity of each unit is on hand and d1 holds a draft, empty or not;
\* d1 submits it through the checkout, with any address.
InitCheckout ==
    /\ InitCatalog
    /\ stock_qty \in [Rows -> 0..MaxStock]
    /\ \E cart \in Carts \cup {<<>>} :
        /\ orders = [o \in OrderIds |-> IF o = 1 THEN Draft("d1", cart) ELSE NoOrder]
        /\ items = [o \in OrderIds |-> IF o = 1 THEN cart ELSE <<>>]
    /\ next_order_id = 2
    /\ InitIdle

NextCheckout == OrderCheckoutConfirm({"d1"}, WooOutcomes)

SpecCheckout == InitCheckout /\ [][NextCheckout]_vars

\* ------------------------------------------------ the lifecycle on its own
\* The shop before any order, and only the cart views, submit, the staff's
\* confirm / cancel / ship and order_delete: nobody edits the stock or sets
\* a status by hand.
NextLifecycle ==
    \/ AddToCart({"d1"}, {"P1"})
    \/ AddToCartWithAttrs({"d1"}, {"P2"})
    \/ CartUpdateItem({"d1"})
    \/ CartRemoveItem({"d1"})
    \/ CartClear({"d1"})
    \/ SubmitOrder({"d1"}, {"down", "no_client"})
    \/ OrderAdminAction({"staff"}, {"down"})
    \/ OrderDelete({"d1"})

SpecLifecycle == Init /\ [][NextLifecycle]_vars

\* ------------------------------------------------- the dealer's own order
\* Order 1 of d1 is in the shop in any status; d1 goes on shopping and
\* posts edits for every line there is, those of order 1 included.
NextOwn ==
    \/ AddToCart({"d1"}, {"P1"})
    \/ AddToCartWithAttrs({"d1"}, {"P2"})
    \/ CartUpdateItem({"d1"})
    \/ CartRemoveItem({"d1"})

SpecOwn == InitOthers /\ [][NextOwn]_vars

\* ================================================================= claims
\* The quantity a sequence of lines asks of row r.
RECURSIVE QtyOn(_, _)
QtyOn(s, r) == IF s = <<>> THEN 0
               ELSE (IF Head(s).row = r THEN Head(s).qty ELSE 0) + QtyOn(Tail(s), r)

\* The quantity of row r in the lines of the submitted orders 1..n.
RECURSIVE SubmittedQty(_, _)
SubmittedQty(n, r) ==
    IF n = 0 THEN 0
    ELSE (IF orders[n].status = "submitted" THEN QtyOn(items[n], r) ELSE 0)
             + SubmittedQty(n - 1, r)

\* Some line of order o asks more than its row has on hand in database d.
HasShortLine(d, o) ==
    /\ o # 0
    /\ \E i \in 1..Len(d.items[o]) :
          d.items[o][i].qty > Max(0, d.stock_qty[d.items[o][i].row])

\* Request r ends in this step.
Ends(r) == tx[r].pc = "open" /\ tx'[r].pc = "idle"

\* ---------------------------------------------------------------------- C1
\* C1: whatever way the concurrent submit requests (submit_order or
\* order_checkout_confirm) of the competing drafts overlap, the quantities
\* of a row over the orders that became 'submitted' never add up to more
\* than the row had on hand; two submits against the last unit never both
\* succeed.
NoOversell == \A r \in Rows : SubmittedQty(MaxOrders + 1, r) <= opening[r]

\* Two submits overlapped on the last unit of P1: one was refused the write
\* lock while the other, which also passed its availability check, is open.
LastUnitContested ==
    /\ opening["P1"] = 1
    /\ stock_qty["P1"] = 1
    /\ response.code = "database_locked"
    /\ \E r \in Requests : tx[r].pc = "open" /\ writes(tx[r])

\* ---------------------------------------------------------------------- C2
\* C2: in every reachable state the on-hand quantity of every product and
\* every variant is at least zero.
StockNeverNegative == \A r \in Rows : stock_qty[r] >= 0

\* ---------------------------------------------------------------------- C3
\* C3: an order that is 'submitted' or 'pending_payment' had its lines
\* subtracted exactly once and not added back; no order's lines are
\* subtracted twice, added back twice, or added back without having been
\* subtracted.
ReservedExactlyOnce ==
    \A o \in OrderIds :
        /\ orders[o].status \in {"submitted", "pending_payment"}
              => (ledger[o].reserved = 1 /\ ledger[o].released = 0)
        /\ ledger[o].reserved <= 1
        /\ ledger[o].released <= ledger[o].reserved

\* ---------------------------------------------------------------------- C4
\* C4: once an order that was submitted is cancelled, every row of its lines
\* that no other request changed since the submit holds the on-hand
\* quantity it had just before the submit, whatever happened to other rows.
CancelRestoresPreSubmit ==
    \A o \in OrderIds :
        orders[o].status = "cancelled"
            => \A r \in DOMAIN ledger[o].presubmit :
                   stock_qty[r] = ledger[o].presubmit[r]

\* An order with a line on V1 went through submit and cancel, V1
\* undisturbed, while the on-hand quantity of P1, not in the order, was
\* adjusted.
RoundTripWithAdjustment ==
    \E o \in OrderIds :
        /\ orders[o].status = "cancelled"
        /\ ledger[o].released = 1
        /\ DOMAIN ledger[o].presubmit = {"V1"}
        /\ RowsOf(DB, o) = {"V1"}
        /\ stock_qty["P1"] # opening["P1"]

\* ---------------------------------------------------------------------- C5
\* C5: a cancel request on an order that is already 'cancelled' leaves the
\* status 'cancelled', changes no on-hand quantity and adds nothing back.
CancelOnCancelledRejected ==
    [][\A o \in OrderIds :
          (/\ orders[o].status = "cancelled"
           /\ Commit(order_admin_action(DB, "staff", o, "cancel", "raise")))
              => /\ orders'[o].status = "cancelled"
                 /\ stock_qty' = stock_qty
                 /\ ledger'[o].released = ledger[o].released]_vars

\* The staff's cancel was rejected on the order that had been cancelled once.
CancelRepeated ==
    /\ response.code = "cancel_rejected"
    /\ orders[1].status = "cancelled"
    /\ ledger[1].released = 1

\* ---------------------------------------------------------------------- C6
\* C6: a submit request, by either view, on a draft of which some line asks
\* more than its row has on hand ends with the order still 'draft' and
\* every on-hand quantity unchanged, and reports the shortage.
ShortLineRejectsAll ==
    [][\A r \in Requests :
          (Ends(r) /\ HasShortLine(tx[r].snap, first_draft(tx[r].snap, tx[r].user)))
              => /\ stock_qty' = stock_qty
                 /\ orders' = orders
                 /\ response'.code = "insufficient"]_vars

\* d1's draft of two lines was rejected for its second line, on V1, though
\* its first line, on P1, could have been served.
SecondLineShort ==
    /\ response = Insufficient("V1", 1)
    /\ orders[1].status = "draft"
    /\ Len(items[1]) = 2
    /\ items[1][1].qty <= stock_qty["P1"]
    /\ stock_qty = opening

\* ---------------------------------------------------------------------- C7
\* C7: with P1 at 5 and the drafts 1 (3 of P1), 2 (5 of P1), 3 (1 of P1):
\* submitting 1 succeeds and leaves P1 at 2; cancelling 1 leaves P1 at 5;
\* submitting 2 then succeeds and leaves P1 at 0; submitting 3 then fails,
\* reporting P1 with 0 available, and leaves P1 at 0 and 3 a draft.
ScenarioOutcome ==
    LET s1 == orders[1].status
        s2 == orders[2].status
        s3 == orders[3].status
    IN /\ (s1 = "draft" /\ s2 = "draft" /\ s3 = "draft")
             => submit_order(DB, "d1", "ok").resp.code = "submitted"
       /\ (s1 \in {"submitted", "pending_payment"} /\ s2 = "draft" /\ s3 = "draft")
             => stock_qty["P1"] = 2
       /\ (s1 = "cancelled" /\ s2 = "draft" /\ s3 = "draft")
             => /\ stock_qty["P1"] = 5
                /\ submit_order(DB, "d2", "ok").resp.code = "submitted"
       /\ (s1 = "cancelled" /\ s2 \in {"submitted", "pending_payment", "shipped"}
              /\ s3 = "draft")
             => /\ stock_qty["P1"] = 0
                /\ submit_order(DB, "d3", "ok") = Result(DB, Insufficient("P1", 0))

\* The run of the scenario ended: 1 cancelled, 2 submitted, and the submit
\* of 3 was just refused.
ScenarioRan ==
    /\ orders[1].status = "cancelled"
    /\ orders[2].status = "submitted"
    /\ orders[3].status = "draft"
    /\ stock_qty["P1"] = 0
    /\ response = Insufficient("P1", 0)
    /\ ledger[1].released = 1

\* ---------------------------------------------------------------------- C8
\* C8: a ship request on a 'pending_payment' order during which create_ttn
\* raises leaves the order 'pending_payment', its tracking number, document
\* reference and shipped timestamp unset, and every on-hand quantity as it
\* was.
FailedShipChangesNothing ==
    [][\A o \in OrderIds :
          (/\ orders[o].status = "pending_payment"
           /\ Commit(order_admin_action(DB, "staff", o, "ship", "raise")))
              => /\ orders'[o].status = "pending_payment"
                 /\ orders'[o].shipping_ttn = ""
                 /\ orders'[o].shipping_np_ref = ""
                 /\ orders'[o].shipped_at = FALSE
                 /\ stock_qty' = stock_qty]_vars

\* The ship of a confirmed order just failed at the provider.
ShipFailed ==
    /\ response.code = "ttn_error"
    /\ \E o \in OrderIds : /\ orders[o].status = "pending_payment"
                           /\ orders[o].shipping_ttn = ""
                           /\ ledger[o].reserved = 1

\* ---------------------------------------------------------------------- C9
Lifecycle == {<<"draft", "submitted">>, <<"submitted", "pending_payment">>,
              <<"submitted", "cancelled">>, <<"pending_payment", "cancelled">>,
              <<"pending_payment", "shipped">>}

\* C9: the status of an order only changes along draft -> submitted,
\* submitted -> pending_payment, submitted -> cancelled, pending_payment ->
\* cancelled and pending_payment -> shipped; a shipped order keeps its status
\* and a cancelled one can only be deleted.
StatusFollowsLifecycle ==
    [][\A o \in OrderIds :
          orders'[o].status # orders[o].status
              => \/ <<orders[o].status, orders'[o].status>> \in Lifecycle
                 \/ orders[o].status = "none" /\ orders'[o].status = "draft"
                 \/ orders[o].status \in {"draft", "cancelled"}
                        /\ orders'[o].status = "none"]_vars

\* --------------------------------------------------------------------- C10
\* C10: a submit request during which the external catalog fails in any way,
\* the construction of its client included, ends as the same request does
\* when the catalog works: same response, same order status, same on-hand
\* quantities.
PushFailureInvisible ==
    [][\A r \in Requests :
          (Ends(r) /\ tx[r].woo # "ok" /\ response'.code # "database_locked")
              => LET ok == run([tx[r] EXCEPT !.woo = "ok"])
                 IN /\ response' = ok.resp
                    /\ stock_qty' = ok.db.stock_qty
                    /\ orders' = ok.db.orders]_vars

\* --------------------------------------------------------------------- C11
\* C11: a call of update_stock / update_variation_stock that reaches the
\* external catalog leaves the unit there at the quantity sent and every
\* other unit as it was; when it repeats the call before it (same unit, same
\* quantity), which had reached the catalog, timed out or not, the catalog
\* is left exactly as the first call left it.
PushTwiceAsOnce ==
    [][(response'.code = "put" /\ response'.net # "down")
          => /\ woo_stock'[response'.unit] = response'.stock_quantity
             /\ \A u \in Rows \ {response'.unit} : woo_stock'[u] = woo_stock[u]
             /\ (/\ response.code = "put"
                 /\ response.net # "down"
                 /\ response.unit = response'.unit
                 /\ response.stock_quantity = response'.stock_quantity)
                    => woo_stock' = woo_stock]_vars

\* The push of a quantity to V1 timed out after the catalog had applied it,
\* and was sent again: the catalog holds that quantity for V1, and for P1
\* what an earlier push left there.
PushRetriedAfterTimeout ==
    /\ response.code = "put"
    /\ response.retry
    /\ response.net = "ok"
    /\ response.unit = "V1"
    /\ response.stock_quantity > 0
    /\ woo_stock["V1"] = response.stock_quantity
    /\ woo_stock["P1"] # stock_qty["P1"]

\* --------------------------------------------------------------------- C12
\* C12: in every reachable state every dealer has at most one order whose
\* status is 'draft', whatever the dealer's add_to_cart and
\* add_to_cart_with_attrs requests and the staff's requests did before.
OneDraftPerDealer == \A u \in Dealers : Cardinality(Drafts(DB, u)) <= 1

\* --------------------------------------------------------------------- C13
\* C13: when a submit request is rejected for insufficient stock, the error
\* it returns names every line of the draft whose row has less on hand than
\* the line asks, each with the quantity available, not only the first.
EveryShortLineNamed ==
    [][\A r \in Requests :
          (Ends(r) /\ response'.code = "insufficient")
              => LET d == tx[r].snap
                     o == first_draft(d, tx[r].user)
                 IN \A i \in 1..Len(d.items[o]) :
                        d.items[o][i].qty > Max(0, d.stock_qty[d.items[o][i].row])
                            => /\ response'.row = d.items[o][i].row
                               /\ response'.available
                                      = Max(0, d.stock_qty[d.items[o][i].row])]_vars

\* --------------------------------------------------------------------- C14
\* C14: after every request of the cart and submit views (add_to_cart,
\* add_to_cart_with_attrs, cart_update_item, cart_remove_item, submit_order),
\* and so in every state they lead to, the stored subtotal and total of every
\* order both equal the sum of qty x price over the lines the order has now,
\* 0 for an order without lines.
TotalsMatchLines ==
    \A o \in OrderIds :
        orders[o].status # "none"
            => /\ orders[o].subtotal = SumLines(items[o])
               /\ orders[o].total = SumLines(items[o])

\* An order of two lines, 2 of P1 at 1 and 1 of V1 at 2, was built by both
\* add views and submitted with the totals 4; the last request was a
\* cart_update_item that the stock capped.
TotalsOfTwoLines ==
    /\ \E o \in OrderIds :
          /\ orders[o].status = "submitted"
          /\ Len(items[o]) = 2
          /\ orders[o].total = 4
    /\ \E o \in OrderIds :
          /\ orders[o].status = "draft"
          /\ Len(items[o]) = 1
          /\ orders[o].total > 0
    /\ response.code = "max_available"

\* --------------------------------------------------------------------- C15
\* The on-hand quantities q of the active variants of product p, added up.
ActiveVariantStock(q, active, p) ==
    SumOver(q, {v \in Variants : product_of(v) = p /\ active[v]})

\* C15: after every request that changes the on-hand quantity of a variant
\* (submit, cancel), the stock_qty of the variant's product equals the sum
\* of the stock_qty of the product's active variants.
AggregateFollowsVariants ==
    [][\A v \in Variants :
          stock_qty'[v] # stock_qty[v]
              => stock_qty'[product_of(v)]
                     = ActiveVariantStock(stock_qty', is_active', product_of(v))]_vars

\* --------------------------------------------------------------------- C16
\* C16: no line of any order is on a product that has variants without
\* naming one of its variants, so that every availability check, decrement
\* and restock for a line of such a product reads and writes the stock_qty of
\* a variant, never the product's aggregate.
NoLineOnAggregate ==
    \A o \in OrderIds : \A i \in 1..Len(items[o]) :
        ~(items[o][i].row \in Products /\ has_variants(items[o][i].row))

\* --------------------------------------------------------------------- C17
\* C17: a request to order_delete that deletes removes one order, which the
\* requester owns and which was 'draft' or 'cancelled', with its lines, and
\* changes no other order and no on-hand quantity; a request that is refused
\* for the status of the order, or that names an order of another dealer,
\* leaves every order, line and on-hand quantity as it was; no order
\* disappears in any other way.
DeleteOnlyOwnDraftOrCancelled ==
    [][/\ response'.code = "deleted"
            => \E o \in OrderIds :
                   /\ orders[o].dealer \in Deleters
                   /\ orders[o].status \in {"draft", "cancelled"}
                   /\ orders' = [orders EXCEPT ![o] = NoOrder]
                   /\ items' = [items EXCEPT ![o] = <<>>]
                   /\ stock_qty' = stock_qty
       /\ response'.code \in {"not_deletable", "404"}
            => UNCHANGED <<orders, items, stock_qty>>
       /\ (\E o \in OrderIds : orders[o].status # "none" /\ orders'[o].status = "none")
            => response'.code = "deleted"]_vars

\* d2 deleted their order after it had been submitted and cancelled: the
\* 5 of P1 it had reserved were back on hand before the delete and still
\* are, and the orders of d1 and d3 are there, d1's submitted.
CancelledOrderDeleted ==
    /\ response.code = "deleted"
    /\ orders[2].status = "none"
    /\ ledger[2].reserved = 1
    /\ ledger[2].released = 1
    /\ orders[1].status = "submitted"
    /\ orders[3].status = "draft"
    /\ stock_qty["P1"] = 2

\* --------------------------------------------------------------------- C18
\* C18: whatever requests a dealer who is not staff sends, no order of
\* another dealer changes its status, its lines or its existence, and no
\* order at all, the dealer's own included, becomes 'pending_payment',
\* 'cancelled' or 'shipped'; every request that is refused (as not staff,
\* as not the owner, as not found) leaves every order, line and on-hand
\* quantity as it was.
DealerCannotTouchOthers ==
    [][/\ \A o \in OrderIds :
              orders[o].dealer = "d1" => (orders'[o] = orders[o] /\ items'[o] = items[o])
       /\ \A o \in OrderIds :
              orders'[o].status \in {"pending_payment", "cancelled", "shipped"}
                  => orders'[o].status = orders[o].status
       /\ response'.code \in {"login", "403", "404"}
              => UNCHANGED <<orders, items, stock_qty>>]_vars

\* d2, who has submitted an order of their own, asked for an admin action
\* while d1's order was 'submitted' and was sent to the login page; both
\* orders are still 'submitted'.
DealerRefusedAsNotStaff ==
    /\ response.code = "login"
    /\ orders[1].dealer = "d1"
    /\ orders[1].status = "submitted"
    /\ \E o \in OrderIds : orders[o].dealer = "d2" /\ orders[o].status = "submitted"

\* --------------------------------------------------------------------- C19
\* The units that are sold: the simple products and the variants.
SellableUnits == {r \in Rows : ~(r \in Products /\ has_variants(r))}

\* C19: a catalog sync that completes while the local on-hand quantity of a
\* unit differs from the external one (a reservation or release was made
\* and its push failed) leaves the local quantity of that unit as it was and
\* sets the external quantity to it; the local quantity of a unit on which
\* an order holds a reservation is never replaced by the external one.
PullKeepsLocal ==
    [][response'.code = "synced"
          => \A r \in SellableUnits :
                 stock_qty[r] # woo_stock[r]
                     => /\ stock_qty'[r] = stock_qty[r]
                        /\ woo_stock'[r] = stock_qty[r]]_vars

\* --------------------------------------------------------------------- C20
\* C20: after reservations and releases some of whose pushes failed, once a
\* catalog sync has completed with the external catalog answering, and as
\* long as no request has followed it, the local and the external on-hand
\* quantity of every sellable unit are equal.
SyncedMeansEqual ==
    response.code = "synced"
        => \A r \in SellableUnits : stock_qty[r] = woo_stock[r]

\* --------------------------------------------------------------------- C21
\* C21: a catalog pull, by the command sync_woo or by the admin action
\* sync_with_woo, completed or not, leaves the wholesale_price of every
\* product as it was, and that of every variant whose wholesale_price was
\* not 0.
PullKeepsWholesalePrice ==
    [][response'.code \in {"synced", "500"}
          => /\ \A p \in Products : wholesale_price'[p] = wholesale_price[p]
             /\ \A v \in Variants :
                    wholesale_price[v] # 0 => wholesale_price'[v] = wholesale_price[v]]_vars

\* A pull has run over V1 whose wholesale price, taken from P2 by an earlier
\* pull, is no longer the price the staff has since given P2.
PulledWithOwnVariantPrice ==
    /\ response.code = "synced"
    /\ wholesale_price["V1"] # 0
    /\ wholesale_price["P2"] # 0
    /\ wholesale_price["V1"] # wholesale_price["P2"]

\* --------------------------------------------------------------------- C22
\* C22: a submit, confirm or ship request (any request of submit_order,
\* order_checkout_confirm or order_admin_action) during which every
\* notification fails returns no server error and ends exactly as one of
\* these views ends on the same database when nothing is wrong with the
\* notifications: same response, same orders and lines, same on-hand
\* quantities.
NotifyFailureInvisible ==
    [][mail' = "down"
          => /\ response'.code # "500"
             /\ \E res \in {submit_order(DB, "d1", "ok"),
                             order_checkout_confirm(DB, "d1", address_of("d1"), "ok")}
                         \cup {order_admin_action(DB, "staff", o, in[1], in[2]) :
                                  o \in OrderIds, in \in AdminInputs} :
                    /\ response' = res.resp
                    /\ orders' = res.db.orders
                    /\ items' = res.db.items
                    /\ stock_qty' = res.db.stock_qty]_vars

\* The order was submitted, confirmed and shipped, and the notification of
\* the ship request failed.
ShippedWithoutNotice ==
    /\ mail = "down"
    /\ response.code = "shipped"
    /\ orders[1].status = "shipped"
    /\ ledger[1].reserved = 1

\* --------------------------------------------------------------------- C23
\* C23: in every reachable state an order whose status is 'shipped' has a
\* tracking number (shipping_ttn) and a shipped_at timestamp, and an order in
\* any other status has no tracking number; the step that makes an order
\* 'shipped' is the step that records both.
ShippedHasTracking ==
    \A o \in OrderIds :
        /\ orders[o].status = "shipped"
              => (orders[o].shipping_ttn # "" /\ orders[o].shipped_at)
        /\ orders[o].status # "shipped" => orders[o].shipping_ttn = ""

\* C24: the grams summed for the shipping document are the sum, over the
\* lines of the shipped order, of quantity times unit weight: for a variant
\* line the variant's weight_g when it is not zero and the product's
\* weight_g otherwise, for a product line the product's weight_g.
UnitWeight(row) ==
    IF row \in Variants
    THEN (IF weight_g[row] # 0 THEN weight_g[row] ELSE weight_g[product_of(row)])
    ELSE weight_g[row]

WeightIsSumOfLines ==
    \A o \in OrderIds :
        orders[o].status = "shipped" /\ np_document.saved
            => np_document.total_g
                 = SumOver([i \in 1..Len(items[o]) |->
                                items[o][i].qty * UnitWeight(items[o][i].row)],
                           1..Len(items[o]))

\* a shipped order with a variant line that weighs as its product
ShippedWithProductWeight ==
    /\ response.code = "shipped"
    /\ np_document.saved
    /\ weight_g["V1"] = 0
    /\ weight_g["P2"] # 0
    /\ \E i \in 1..Len(items[1]) : items[1][i].row = "V1"
    /\ np_document.total_g > 0

\* C29: the Weight of every saved document is at least 0.1 kg.
WeightAtLeastMinimum == np_document.saved => np_document.Weight >= 1

\* C25: a line is created with the wholesale price its unit has at that
\* moment, and a line that stays in its order keeps its price through every
\* step: price edits, catalog pulls and further additions to the line.
LineOf(its, row) == {i \in 1..Len(its) : its[i].row = row}

LinePriceFixedAtCreation ==
    [][\A o \in OrderIds, row \in Rows :
          \A j \in LineOf(items'[o], row) :
              /\ LineOf(items[o], row) = {} => items'[o][j].price = wholesale_price[row]
              /\ \A i \in LineOf(items[o], row) : items'[o][j].price = items[o][i].price]_vars

\* a line grown after its unit's price moved away from the line's price
LineGrownAfterPriceChange ==
    /\ response.code = "added"
    /\ \E o \in OrderIds : \E i \in 1..Len(items[o]) :
          /\ items[o][i].qty >= 2
          /\ items[o][i].price # wholesale_price[items[o][i].row]

\* C26: no order ever holds two lines for one sellable unit, however the
\* additions of one dealer for one unit overlap.
OneLinePerUnit ==
    \A o \in OrderIds, row \in Rows : Cardinality(ItemsOf(DB, o, row)) <= 1

\* one of two overlapping additions for the same unit was refused the lock
\* while the other, still open, is about to insert the line
OverlappingAdditions ==
    /\ response.code = "database_locked"
    /\ \E r \in Requests :
          /\ tx[r].pc = "open"
          /\ tx[r].op = "add_to_cart"
          /\ tx[r].product_id = "P1"
          /\ first_draft(DB, "d1") # 0
          /\ ItemsOf(DB, first_draft(DB, "d1"), "P1") = {}

\* C27: a cart request that is told the quantity it asked for exceeds what
\* is on hand ("Максимально доступно") leaves every line as it was: no smaller
\* quantity is stored in place of the one asked for.
ShortfallLeavesLinesUnchanged ==
    [][response'.code = "max_available" => items' = items]_vars

\* C28: order_admin_action moves an order only along confirm: submitted ->
\* pending_payment, cancel: submitted or pending_payment -> cancelled, ship:
\* pending_payment -> shipped; a request it rejects, for the order's status
\* or for an unknown action, leaves every status, tracking field and on-hand
\* quantity as it was; a confirm or ship that succeeds changes no on-hand
\* quantity.
AdminMoves ==
    {<<"submitted", "pending_payment", "confirmed">>,
     <<"submitted", "cancelled", "cancelled">>,
     <<"pending_payment", "cancelled", "cancelled">>,
     <<"pending_payment", "shipped", "shipped">>}

AdminActionOnlyWhereAllowed ==
    [][/\ response'.code \in {"confirmed", "cancelled", "shipped"}
          => \A o \in OrderIds :
                orders'[o].status # orders[o].status
                    => <<orders[o].status, orders'[o].status, response'.code>> \in AdminMoves
       /\ response'.code \in {"confirm_rejected", "cancel_rejected", "ship_rejected", "400"}
          => /\ stock_qty' = stock_qty
             /\ \A o \in OrderIds :
                   /\ orders'[o].status = orders[o].status
                   /\ orders'[o].shipping_ttn = orders[o].shipping_ttn
                   /\ orders'[o].shipping_np_ref = orders[o].shipping_np_ref
                   /\ orders'[o].shipped_at = orders[o].shipped_at
       /\ response'.code \in {"confirmed", "shipped"} => stock_qty' = stock_qty]_vars

\* a cancel refused on an order that was confirmed and shipped
CancelRefusedOnShipped ==
    /\ response.code = "cancel_rejected"
    /\ \E o \in OrderIds : orders[o].status = "shipped" /\ orders[o].shipping_ttn # ""

\* C30: every stored order line has a quantity of at least 1: no addition
\* leaves a new line at 0, and an update to 0 or less deletes the line.
StoredLinesPositive ==
    \A o \in OrderIds : \A i \in 1..Len(items[o]) : items[o][i].qty >= 1

\* the only line of a draft was updated away
LastLineUpdatedAway ==
    /\ response.code = "ok"
    /\ \E o \in OrderIds : orders[o].status = "draft" /\ items[o] = <<>>

\* C31: with the cart views, submit, confirm, cancel, ship and order_delete
\* run one at a time, the on-hand quantity of every unit plus the quantities
\* of its lines in 'submitted', 'pending_payment' and 'shipped' orders stays
\* what the unit had on hand at the start.
LineQtyOn(o, r) ==
    SumOver([i \in 1..Len(items[o]) |-> IF items[o][i].row = r THEN items[o][i].qty ELSE 0],
            1..Len(items[o]))

HeldOf(r) ==
    SumOver([o \in OrderIds |->
                IF orders[o].status \in {"submitted", "pending_payment", "shipped"}
                THEN LineQtyOn(o, r) ELSE 0], OrderIds)

OnHandPlusHeldConstant ==
    \A r \in Rows : stock_qty[r] + HeldOf(r) = opening[r]

\* one order was cancelled and deleted or kept, another holds stock now
HeldAfterACancel ==
    /\ \E o \in OrderIds : orders[o].status = "cancelled" /\ Len(items[o]) > 0
    /\ \E o \in OrderIds : orders[o].status \in {"pending_payment", "shipped"}
    /\ \E r \in Rows : HeldOf(r) > 0

\* the quantity of the lines s on row r
SumLineQty(s, r) ==
    SumOver([i \in 1..Len(s) |-> IF s[i].row = r THEN s[i].qty ELSE 0], 1..Len(s))

\* C32: however two submit requests for d1's one draft overlap, each unit of
\* the order is short of its opening quantity by the line quantity once the
\* order is submitted, and by nothing before: never by twice the line.
DoubleSubmitReservesOnce ==
    \A r \in Rows :
        stock_qty[r] = opening[r] - (IF orders[1].status = "submitted"
                                     THEN SumLineQty(items[1], r) ELSE 0)

\* the two requests read the same draft; one was refused the write lock and
\* the other is about to commit the reservation
DoubleSubmitOverlapped ==
    /\ response.code = "database_locked"
    /\ orders[1].status = "draft"
    /\ \E r \in Requests :
          /\ tx[r].pc = "open"
          /\ tx[r].user = "d1"
          /\ run(tx[r]).resp.code = "submitted"

\* C33: however the staff's requests on the order overlap, each unit of the
\* order is credited the line quantity once the order is cancelled, and
\* nothing before: never twice the line.
DoubleCancelReleasesOnce ==
    \A r \in Rows :
        stock_qty[r] = opening[r] + (IF orders[1].status = "cancelled"
                                     THEN SumLineQty(items[1], r) ELSE 0)

\* two cancels read the same order; one was refused the write lock and the
\* other is about to commit the release
DoubleCancelOverlapped ==
    /\ response.code = "database_locked"
    /\ orders[1].status \in {"submitted", "pending_payment"}
    /\ ~np_document.saved
    /\ \E r \in Requests :
          /\ tx[r].pc = "open"
          /\ tx[r].action = "cancel"
          /\ run(tx[r]).resp.code = "cancelled"

\* C34: of a cancel and a ship on one order at most one takes effect: an
\* order that is 'shipped' or carries a tracking number still holds its
\* stock, and a 'cancelled' order has no tracking number and no shipping
\* document saved for it.
CancelOrShipNotBoth ==
    /\ orders[1].status = "shipped" \/ orders[1].shipping_ttn # ""
          => \A r \in Rows : stock_qty[r] = opening[r]
    /\ orders[1].status = "cancelled"
          => orders[1].shipping_ttn = "" /\ ~np_document.saved

\* C35: however a submit and the edits of the draft's lines overlap, the
\* lines of an order whose stock is reserved are the lines the submit
\* reserved, and a cancel gives back exactly that: every unit is short of
\* its opening quantity by its line while the order is submitted, and by
\* nothing once it is cancelled.
EditNeverTouchesReserved ==
    \A r \in Rows :
        /\ orders[1].status = "submitted"
              => stock_qty[r] + SumLineQty(items[1], r) = opening[r]
        /\ orders[1].status \in {"draft", "cancelled", "none"} => stock_qty[r] = opening[r]

\* an edit that read the draft was refused the write lock while the submit
\* that overlaps it is about to commit the reservation
EditRefusedBySubmit ==
    /\ response.code = "database_locked"
    /\ orders[1].status = "draft"
    /\ tx[2].pc = "idle"
    /\ tx[1].pc = "open"
    /\ tx[1].op \in {"submit_order", "order_checkout_confirm"}
    /\ run(tx[1]).resp.code = "submitted"

\* C36: no request of the dealer changes an order that is not 'draft', its
\* lines and totals included; an edit of a line that is refused leaves
\* every line, every total and every on-hand quantity as it was.
DealerEditsOnlyDrafts ==
    [][/\ \A o \in OrderIds :
             orders[o].status \notin {"draft", "none"}
                 => items'[o] = items[o] /\ orders'[o] = orders[o]
       /\ response'.code = "403"
             => items' = items /\ orders' = orders /\ stock_qty' = stock_qty]_vars

\* d1 was refused an edit on the shipped order and has a new draft beside it
EditOfShippedRefused ==
    /\ response.code = "403"
    /\ orders[1].status = "shipped"
    /\ orders[2].status = "draft"
    /\ Len(items[2]) > 0

\* C37: an add-to-cart request that adds nothing (the unit is out of stock,
\* no variant has the selected attributes, or the line is at the available
\* quantity already) leaves every order and every line as it was: it
\* creates no draft and no line.
EmptyAddChangesNothing ==
    [][response'.code \in {"out_of_stock", "no_combination", "max_available"}
          => orders' = orders /\ items' = items]_vars

\* what d1's draft holds of a unit, 0 without a draft or a line
DraftQty(d, user, row) ==
    IF first_draft(d, user) = 0 THEN 0
    ELSE SumLineQty(d.items[first_draft(d, user)], row)

\* the unit an open addition is for
AddedUnit(q) ==
    IF q.op = "add_to_cart_with_attrs" /\ has_variants(q.product_id)
    THEN q.selected ELSE q.product_id

\* C38: however two additions of one dealer for one unit overlap, none is
\* lost and none exceeds the stock: each request that ends has brought the
\* line from its quantity c to min(c + q, A), A being the unit's on-hand
\* quantity, so that two of them bring it to min(c + q1 + q2, A).
EveryAdditionApplied ==
    [][\A r \in Requests :
          tx[r].pc = "open" /\ tx'[r].pc = "idle"
          => DraftQty(DB', tx[r].user, AddedUnit(tx[r]))
               = Min(DraftQty(DB, tx[r].user, AddedUnit(tx[r])) + tx[r].qty,
                     Max(0, stock_qty[AddedUnit(tx[r])]))]_vars

\* C39: with an address of the dealer, order_checkout_confirm does what
\* submit_order does on the same draft and the same stock: the same answer,
\* the same on-hand quantities, lines, statuses and totals; the orders
\* differ in the shipping destination only.
CheckoutAsSubmit ==
    [][response'.code # "404"
          => \E woo \in WooOutcomes :
                LET res == submit_order(DB, "d1", woo)
                IN /\ response' = res.resp
                   /\ stock_qty' = res.db.stock_qty
                   /\ items' = res.db.items
                   /\ \A o \in OrderIds :
                         orders'[o] = [res.db.orders[o] EXCEPT
                                          !.shipping_address = orders'[o].shipping_address]]_vars

\* a draft went through the checkout with d1's address, its stock reserved
CheckedOutWithAddress ==
    /\ response.code = "submitted"
    /\ orders[1].status = "submitted"
    /\ orders[1].shipping_address = "a1"
    /\ \E r \in Rows : stock_qty[r] < opening[r]

====
